---- MODULE Spec2Model ----
(***************************************************************************)
(* K8sBlackPearl worker package: the worker pool (CaptainTellWorkers),     *)
(* the per-worker loop (CrewWorker / processTask), the retry driver        *)
(* (performTaskWithRetries / RetryPolicy.Execute), the claim registry      *)
(* (TaskStatusMap) and the unbuffered results channel.                     *)
(***************************************************************************)
EXTENDS Integers, Sequences, FiniteSets, TLC

\* ---------------------------------------------------------------- bounds
NumWorkers == 3
NumTasks == 1
MaxRetriesBound == 2
NumNames == 3
NumKinds == 2
NumConstructors == 3

Workers == 1..NumWorkers
\* the task names that occur in a batch
TaskNames == 1..NumTasks
\* the names the methods of a TaskStatusMap are called with
StatusNames == 1..NumNames
\* the task types and the constructors the registry is called with
Kinds == 1..NumKinds
Constructors == 1..NumConstructors

VARIABLES
    taskFile,       \* the task file given to the loader: its first entry
    loaded,         \* what LoadTasksFromJSON returned for it
    tasks,          \* the task slice handed to CaptainTellWorkers: the
                    \* Name of every entry
    registered,     \* per entry: taskRunnerRegistry has its Type
    claimed,        \* TaskStatusMap.claimed: set of claimed task names
    stored,         \* TaskStatusMap.tasks: the names that have an entry
    held,           \* observation: names a Claim has returned true for
                    \* and no call has unclaimed since
    lastCall,       \* observation: the last method call on the
                    \* TaskStatusMap and what it returned
    taskRunnerRegistry, \* per task type its constructor (0: no entry)
    lastRegistered, \* observation: per task type the constructor of the
                    \* latest RegisterTaskRunner call (0: none)
    overwritten,    \* observation: the types registered more than once
    lastRunner,     \* observation: the last GetTaskRunner call, what it
                    \* returned and the constructors it called
    parameters,     \* task.Parameters of the task given to resolveConflict
    resolveRet,     \* what the last call of resolveConflict returned
    runner,         \* the TaskRunner whose Run is executing
    runPc,          \* where Run, or the operation it called, is
    runMaxRetries,  \* task.MaxRetries given to the operation
    runAttempt,     \* the operation's loop counter
    backoffSteps,   \* retry.RetryOnConflict: steps left of the backoff
    lastErr,        \* the operation's last error
    cause,          \* observation: the error the API returned in the
                    \* last attempt
    resultsLen,     \* messages in Run's local results channel
    sent,           \* observation: sends made on that channel
    runRet,         \* what Run returned
    pc,             \* position of each worker goroutine
    idx,            \* CrewWorker: index of the range loop over tasks
    attempt,        \* RetryPolicy.Execute: loop counter
    execErr,        \* error held by the worker: lastErr, then Execute's result
    ctxCancelled,   \* shutdownCtx is done
    onceDone,       \* sync.Once: done flag
    onceRunning,    \* sync.Once: goroutines executing the once body
    closers,        \* background goroutines blocked in wg.Wait()
    closeCount,     \* number of close(results) executed
    maxRetries,     \* Task.MaxRetries of every task
    calledAgain,    \* observation: shutdown was called after its first call
    finished,       \* observation: tasks driven to a terminal outcome
    emitted,        \* observation: tasks with a success or error result out
    wsent,          \* observation: results a worker has sent for its task
    wcalls,         \* observation: handler invocations of the running
                    \* performTaskWithRetries call, its recursion included
    owner,          \* observation: the worker whose Claim put the name in
                    \* the map (0: the name is not in the map)
    succeeded       \* observation: tasks whose handler has returned nil

vars == <<taskFile, loaded, tasks, registered, stored, held, lastCall,
          taskRunnerRegistry, lastRegistered, overwritten, lastRunner,
          parameters, resolveRet, runner, runPc, runMaxRetries, runAttempt,
          backoffSteps, lastErr, cause, resultsLen, sent, runRet,
          claimed, pc, idx, attempt, execErr, ctxCancelled, onceDone,
          onceRunning, closers, closeCount, maxRetries, calledAgain,
          finished, emitted, wsent, wcalls, owner, succeeded>>

captainVars == <<ctxCancelled, onceDone, onceRunning, closers, closeCount,
                 calledAgain>>
workerVars == <<claimed, pc, idx, attempt, execErr, maxRetries, wsent,
                wcalls>>
obsTask == <<finished, emitted>>
obsClaim == <<owner, succeeded>>
trackVars == <<stored, held, lastCall>>
registryVars == <<taskRunnerRegistry, lastRegistered, overwritten, lastRunner>>
conflictVars == <<parameters, resolveRet>>
runVars == <<runner, runPc, runMaxRetries, runAttempt, backoffSteps, lastErr,
             cause, resultsLen, sent, runRet>>
auxVars == <<trackVars, registryVars, conflictVars, runVars>>
inputVars == <<taskFile, loaded, tasks, registered, auxVars>>

\* the task the worker's loop variable currently holds
TaskOf(w) == tasks[idx[w]]

\* the retry bound of the specification for task t, and the point past it
\* where the count of handler invocations stops growing
RetryBound(i) == maxRetries[i] * (1 + maxRetries[i])
CallCap(i) == RetryBound(i) + 1
Sat(n, cap) == IF n >= cap THEN cap ELSE n + 1

\* ------------------------------------------------------ configuration
\* the retryDelay strings of the task files considered
DelayStrings == {"", "abc", "-5s", "0s", "10ms", "1s"}

\* the task files considered: unreadable, not JSON, or an array whose
\* entry has the given maxRetries and retryDelay
TaskFiles ==
    [syntax : {"unreadable", "malformed", "ok"},
     maxRetries : (-1)..MaxRetriesBound,
     retryDelay : DelayStrings]

NoFile == [syntax |-> "none"]
NoCall == [op |-> "none", name |-> 0, ret |-> FALSE]
NoRunner == [kind |-> 0, err |-> FALSE, runner |-> 0, called |-> {}]
NotLoaded == [state |-> "none"]

\* ParseDuration: an error for the empty string and for what
\* time.ParseDuration rejects, else the duration (here in milliseconds);
\* time.ParseDuration takes a leading sign
ParseDuration(str) ==
    CASE str = "" -> [err |-> TRUE, duration |-> 0]
      [] str = "-5s" -> [err |-> FALSE, duration |-> 0 - 5000]
      [] str = "0s" -> [err |-> FALSE, duration |-> 0]
      [] str = "10ms" -> [err |-> FALSE, duration |-> 10]
      [] str = "1s" -> [err |-> FALSE, duration |-> 1000]
      [] OTHER -> [err |-> TRUE, duration |-> 0]

\* LoadTasksFromJSON: os.ReadFile, json.Unmarshal, then ParseDuration of
\* every entry's RetryDelay; MaxRetries is kept as unmarshalled
LoadTasksFromJSON(file) ==
    IF file.syntax # "ok" \/ ParseDuration(file.retryDelay).err
    THEN [state |-> "error"]
    ELSE [state |-> "tasks",
          MaxRetries |-> file.maxRetries,
          RetryDelayDuration |-> ParseDuration(file.retryDelay).duration]

\* ------------------------------------------------- task parameters
\* the keys of a parameter map: language.PodName,
\* language.ResourceVersion, and one more
ParamKeys == {"podName", "resourceVersion", "replicas"}

\* the values of a parameter map: strings and numbers
ParamValues == [type : {"string", "number"}, val : 1..MaxRetriesBound]

\* the parameter maps considered: any keys present, any values
ParameterMaps ==
    UNION {[keys -> ParamValues] : keys \in SUBSET ParamKeys}

\* a task without parameters
NoParameters == [k \in {} |-> 0]

\* getParamAsString: value, ok := params[key].(string)
getParamAsString(params, key) ==
    IF key \in DOMAIN params /\ params[key].type = "string"
    THEN [err |-> FALSE, value |-> params[key]]
    ELSE [err |-> TRUE, value |-> [type |-> "string", val |-> 0]]

\* the resourceVersion strings a fetched pod can carry
ResourceVersions == {v \in ParamValues : v.type = "string"}

\* ------------------------------------------------------ task runners
\* the runners that report through a local results channel:
\* CrewScaleDeployments, CrewUpdateImageDeployments,
\* CrewUpdateNetworkPolicy
Runners == {"scale", "image", "network"}

\* results := make(chan string, 1)
ResultsCap == 1

\* retry.DefaultRetry.Steps: the calls retry.RetryOnConflict makes at most
RetrySteps == 5

\* no runner is executing
IdleRun ==
    /\ runner = "none"
    /\ runPc = "idle"
    /\ runMaxRetries = 0
    /\ runAttempt = 0
    /\ backoffSteps = 0
    /\ lastErr = "nil"
    /\ cause = "nil"
    /\ resultsLen = 0
    /\ sent = 0
    /\ runRet = "none"

\* ---------------------------------------------------------------- Init
\* the state when CaptainTellWorkers has started its workers on the
\* slice whose entries have the given names, their MaxRetries being one
\* of retries and the registration of their types one of regs
InitWith(names, retries, regs) ==
    /\ tasks = names
    /\ registered \in regs
    /\ claimed = {}
    /\ stored = {}
    /\ held = {}
    /\ lastCall = NoCall
    /\ taskRunnerRegistry = [k \in Kinds |-> 0]
    /\ lastRegistered = [k \in Kinds |-> 0]
    /\ overwritten = {}
    /\ lastRunner = NoRunner
    /\ resolveRet = "none"
    /\ pc = [w \in Workers |-> "loop"]
    /\ idx = [w \in Workers |-> 1]
    /\ attempt = [w \in Workers |-> 0]
    /\ execErr = [w \in Workers |-> "nil"]
    /\ ctxCancelled = FALSE
    /\ onceDone = FALSE
    /\ onceRunning = 0
    /\ closers = 0
    /\ closeCount = 0
    /\ maxRetries \in retries
    /\ calledAgain = FALSE
    /\ finished = {}
    /\ emitted = {}
    /\ wsent = [w \in Workers |-> 0]
    /\ wcalls = [w \in Workers |-> 0]
    /\ owner = [t \in TaskNames |-> 0]
    /\ succeeded = {}

\* a batch of NumTasks tasks with names unique in the batch
Init ==
    /\ InitWith([i \in 1..NumTasks |-> i],
                [1..NumTasks -> 1..MaxRetriesBound],
                [1..NumTasks -> BOOLEAN])
    /\ taskFile = NoFile
    /\ loaded = NotLoaded
    /\ parameters = NoParameters
    /\ IdleRun

\* a batch with one entry more, all entries under one name: the first
\* entries with a single attempt, the last one with the largest budget
\* and of a registered type or not
DupTasks == [i \in 1..(NumTasks + 1) |-> 1]
DupInit ==
    /\ InitWith(DupTasks,
                {[i \in 1..(NumTasks + 1) |->
                    IF i <= NumTasks THEN 1 ELSE MaxRetriesBound]},
                {[i \in 1..(NumTasks + 1) |-> i <= NumTasks \/ r] :
                    r \in BOOLEAN})
    /\ taskFile = NoFile
    /\ loaded = NotLoaded
    /\ parameters = NoParameters
    /\ IdleRun

\* a batch whose tasks may have no attempt at all: MaxRetries negative,
\* zero or the largest budget
NoBudgetInit ==
    /\ InitWith([i \in 1..NumTasks |-> i],
                [1..NumTasks -> {0 - 1, 0, MaxRetriesBound}],
                [1..NumTasks -> BOOLEAN])
    /\ taskFile = NoFile
    /\ loaded = NotLoaded
    /\ parameters = NoParameters
    /\ IdleRun

\* a task with any parameter map, before its first conflict
ConflictInit ==
    /\ InitWith([i \in 1..NumTasks |-> i],
                {[i \in 1..NumTasks |-> 1]},
                {[i \in 1..NumTasks |-> TRUE]})
    /\ taskFile = NoFile
    /\ loaded = NotLoaded
    /\ parameters \in ParameterMaps
    /\ IdleRun

\* Run of one of the runners has read its parameters, made its results
\* channel and calls its operation: ScaleDeployment and
\* UpdateDeploymentImage are at their loop, UpdateNetworkPolicy at the
\* first call of the function it gives to retry.RetryOnConflict
RunInit ==
    /\ InitWith([i \in 1..NumTasks |-> i],
                {[i \in 1..NumTasks |-> 1]},
                {[i \in 1..NumTasks |-> TRUE]})
    /\ taskFile = NoFile
    /\ loaded = NotLoaded
    /\ parameters = NoParameters
    /\ runner \in Runners
    /\ runPc = IF runner = "network" THEN "once" ELSE "loop"
    /\ runMaxRetries \in 0..MaxRetriesBound
    /\ runAttempt = 0
    /\ backoffSteps = IF runner = "scale" THEN 0 ELSE RetrySteps
    /\ lastErr = "nil"
    /\ cause = "nil"
    /\ resultsLen = 0
    /\ sent = 0
    /\ runRet = "none"

\* the program before the loader has read its task file, no worker
\* started
LoaderInit ==
    /\ InitWith([i \in 1..NumTasks |-> i],
                {[i \in 1..NumTasks |-> 1]},
                {[i \in 1..NumTasks |-> TRUE]})
    /\ taskFile \in TaskFiles
    /\ loaded = NotLoaded
    /\ parameters = NoParameters
    /\ IdleRun

\* LoadTasks on a .json path
LoadTasks ==
    /\ loaded = NotLoaded
    /\ taskFile # NoFile
    /\ loaded' = LoadTasksFromJSON(taskFile)
    /\ UNCHANGED <<taskFile, tasks, registered>>
    /\ UNCHANGED auxVars
    /\ UNCHANGED workerVars
    /\ UNCHANGED captainVars
    /\ UNCHANGED obsTask
    /\ UNCHANGED obsClaim


\* ------------------------------------------------------ TaskStatusMap
\* a Claim that does not look at the map
ClaimAlways(name) == TRUE

\* Claim: true iff the name was not in the map; then it is added
ClaimOk(name) == name \notin claimed
\* a Release that leaves the map as it is
ReleaseNothing(name) == claimed

\* a Release that empties the map
ReleaseAll(name) == {}

\* Release: delete(s.claimed, taskName)
Release(name) == claimed \ {name}

\* what a method call leaves alone outside the TaskStatusMap
TrackFrame ==
    /\ UNCHANGED <<taskFile, loaded, tasks, registered>>
    /\ UNCHANGED registryVars
    /\ UNCHANGED conflictVars
    /\ UNCHANGED runVars
    /\ UNCHANGED <<pc, idx, attempt, execErr, maxRetries, wsent, wcalls>>
    /\ UNCHANGED captainVars
    /\ UNCHANGED obsTask
    /\ UNCHANGED obsClaim

\* AddTask / UpdateTask: s.tasks[task.Name] = task
AddTask(name) ==
    /\ stored' = stored \cup {name}
    /\ lastCall' = [op |-> "AddTask", name |-> name, ret |-> FALSE]
    /\ UNCHANGED <<claimed, held>>
    /\ TrackFrame

\* DeleteTask: delete(s.tasks, name); delete(s.claimed, name)
DeleteTask(name) ==
    /\ stored' = stored \ {name}
    /\ claimed' = claimed \ {name}
    /\ held' = held \ {name}
    /\ lastCall' = [op |-> "DeleteTask", name |-> name, ret |-> FALSE]
    /\ TrackFrame

\* Claim(name) called on the map
Claim(name) ==
    /\ claimed' = IF ClaimOk(name) THEN claimed \cup {name} ELSE claimed
    /\ held' = IF ClaimOk(name) THEN held \cup {name} ELSE held
    /\ lastCall' = [op |-> "Claim", name |-> name, ret |-> ClaimOk(name)]
    /\ UNCHANGED stored
    /\ TrackFrame

\* Release(name) called on the map
ReleaseCall(name) ==
    /\ claimed' = Release(name)
    /\ held' = held \ {name}
    /\ lastCall' = [op |-> "Release", name |-> name, ret |-> FALSE]
    /\ UNCHANGED stored
    /\ TrackFrame

\* IsClaimed: _, claimed := s.claimed[taskName]; return claimed
IsClaimed(name) ==
    /\ lastCall' = [op |-> "IsClaimed", name |-> name,
                    ret |-> name \in claimed]
    /\ UNCHANGED <<claimed, stored, held>>
    /\ TrackFrame

\* ------------------------------------------------ taskRunnerRegistry
\* a registry that keeps the first constructor of a type
RegisteredFirstWins(kind, c) ==
    IF taskRunnerRegistry[kind] # 0 THEN taskRunnerRegistry
    ELSE [taskRunnerRegistry EXCEPT ![kind] = c]

\* taskRunnerRegistry[taskType] = constructor
Registered(kind, c) == [taskRunnerRegistry EXCEPT ![kind] = c]

\* what a call on the registry leaves alone
RegistryFrame ==
    /\ UNCHANGED <<taskFile, loaded, tasks, registered>>
    /\ UNCHANGED trackVars
    /\ UNCHANGED conflictVars
    /\ UNCHANGED runVars
    /\ UNCHANGED workerVars
    /\ UNCHANGED captainVars
    /\ UNCHANGED obsTask
    /\ UNCHANGED obsClaim

\* RegisterTaskRunner(taskType, constructor)
RegisterTaskRunner(kind, c) ==
    /\ taskRunnerRegistry' = Registered(kind, c)
    /\ lastRegistered' = [lastRegistered EXCEPT ![kind] = c]
    /\ overwritten' = IF lastRegistered[kind] \notin {0, c}
                      THEN overwritten \cup {kind} ELSE overwritten
    /\ UNCHANGED lastRunner
    /\ RegistryFrame

\* GetTaskRunner(taskType): the "unknown task type" error if the map has
\* no entry, else constructor()
GetTaskRunner(kind) ==
    /\ lastRunner' =
          IF taskRunnerRegistry[kind] = 0
          THEN [kind |-> kind, err |-> TRUE, runner |-> 0, called |-> {}]
          ELSE [kind |-> kind, err |-> FALSE,
                runner |-> taskRunnerRegistry[kind],
                called |-> {taskRunnerRegistry[kind]}]
    /\ UNCHANGED <<taskRunnerRegistry, lastRegistered, overwritten>>
    /\ RegistryFrame

\* --------------------------------------------------------- CrewWorker
\* advance the range loop after processTask returned
NextIdx(w) == idx[w] + 1
LoopPc(w) == IF NextIdx(w) > Len(tasks) THEN "done" ELSE "loop"

\* processTask: Claim failed -> return; the loop moves on
ClaimSkip(w) ==
    /\ pc[w] = "loop"
    /\ ~ClaimOk(TaskOf(w))
    /\ pc' = [pc EXCEPT ![w] = LoopPc(w)]
    /\ idx' = [idx EXCEPT ![w] = NextIdx(w)]
    /\ UNCHANGED <<claimed, attempt, execErr, maxRetries, wsent, wcalls>>
    /\ UNCHANGED captainVars
    /\ UNCHANGED inputVars
    /\ UNCHANGED obsTask
    /\ UNCHANGED obsClaim

\* an Execute whose loop body runs once before the budget is looked at
LoopEnteredAlways(i) == TRUE

\* Execute: for attempt := 0; attempt < r.MaxRetries: the loop is entered
\* when MaxRetries is at least 1; else Execute returns at once the error
\* it builds from MaxRetries and a nil lastErr
LoopEntered(i) == maxRetries[i] >= 1

\* processTask: Claim succeeded -> performTaskWithRetries -> Execute ->
\* operation() of attempt 0 (no look at ctx before the call)
ClaimRun(w) ==
    /\ pc[w] = "loop"
    /\ ClaimOk(TaskOf(w))
    /\ claimed' = claimed \cup {TaskOf(w)}
    /\ pc' = [pc EXCEPT ![w] =
                 IF LoopEntered(idx[w]) THEN "performTask" ELSE "executeErr"]
    /\ attempt' = [attempt EXCEPT ![w] = 0]
    /\ wcalls' = [wcalls EXCEPT ![w] = IF LoopEntered(idx[w]) THEN 1 ELSE 0]
    /\ owner' = [owner EXCEPT ![TaskOf(w)] = w]
    /\ execErr' = [execErr EXCEPT ![w] =
                      IF LoopEntered(idx[w]) THEN @ ELSE "generic"]
    /\ UNCHANGED <<idx, maxRetries, wsent, succeeded>>
    /\ UNCHANGED captainVars
    /\ UNCHANGED inputVars
    /\ UNCHANGED obsTask

\* ------------------------------------------------------ performTask
\* a lookup that finds a runner for every type
RunnerFoundAlways(w) == TRUE

\* GetTaskRunner(task.Type): the registry has a constructor for the type
RunnerFound(w) == registered[idx[w]]

\* ------------------------------------------- RetryPolicy.Execute
\* the handler (runner.Run) returns nil: Execute returns nil, and
\* performTaskWithRetries goes to handleSuccessfulTask
HandlerOk(w) ==
    /\ pc[w] = "performTask"
    /\ RunnerFound(w)
    /\ pc' = [pc EXCEPT ![w] = "sendOk1"]
    /\ execErr' = [execErr EXCEPT ![w] = "nil"]
    /\ attempt' = [attempt EXCEPT ![w] = 0]
    /\ wcalls' = [wcalls EXCEPT ![w] = 0]
    /\ finished' = finished \cup {TaskOf(w)}
    /\ succeeded' = succeeded \cup {TaskOf(w)}
    /\ UNCHANGED <<claimed, idx, maxRetries, wsent, emitted, owner>>
    /\ UNCHANGED captainVars
    /\ UNCHANGED inputVars

\* a loop that waits and goes round once more after the last attempt
AttemptsRemainOffByOne(w) == attempt[w] < maxRetries[idx[w]]

\* attempts remain after this failed one (attempt < r.MaxRetries-1)
AttemptsRemain(w) == attempt[w] < maxRetries[idx[w]] - 1

\* where Execute is after a failed attempt: in the select of
\* waitForNextAttempt if attempts remain (with the context already done
\* and the delay over when the select is entered, both cases are ready
\* and the select may take the timer), else at its final return
AfterFailedAttempt(w) ==
    IF ~AttemptsRemain(w) THEN {"executeErr"}
    ELSE IF ctxCancelled THEN {"waitForNextAttempt", "timerFired"}
    ELSE {"waitForNextAttempt"}

\* operation() returns an error of kind e; lastErr = err, then either
\* the wait before the next attempt or, the budget used up, Execute
\* returns lastErr wrapped with the attempt count
AttemptFailed(w, e) ==
    /\ pc[w] = "performTask"
    /\ execErr' = [execErr EXCEPT ![w] = e]
    /\ \E p \in AfterFailedAttempt(w) : pc' = [pc EXCEPT ![w] = p]
    /\ UNCHANGED <<claimed, idx, attempt, maxRetries, wsent, wcalls>>
    /\ UNCHANGED captainVars
    /\ UNCHANGED inputVars
    /\ UNCHANGED obsTask
    /\ UNCHANGED obsClaim

\* a wait that sleeps the whole delay whatever the context
TimerWakesAlways == TRUE

\* the select of waitForNextAttempt: a goroutine parked in the select is
\* woken by the first channel that gets ready, so the timer wakes it only
\* if ctx.Done() has not been closed before
TimerWakes == ~ctxCancelled

\* waitForNextAttempt: the delay timer fires and the select takes
\* case <-time.After(retryDelay)
TimerFires(w) ==
    /\ pc[w] = "waitForNextAttempt"
    /\ TimerWakes
    /\ pc' = [pc EXCEPT ![w] = "timerFired"]
    /\ UNCHANGED <<claimed, idx, attempt, execErr, maxRetries, wsent, wcalls>>
    /\ UNCHANGED captainVars
    /\ UNCHANGED inputVars
    /\ UNCHANGED obsTask
    /\ UNCHANGED obsClaim

\* the handler (runner.Run) returns an error of kind e
HandlerErr(w, e) ==
    /\ pc[w] = "performTask"
    /\ RunnerFound(w)
    /\ AttemptFailed(w, e)

\* GetTaskRunner returns the "unknown task type" error, performTask
\* returns it without running a handler
LookupFailed(w) ==
    /\ pc[w] = "performTask"
    /\ ~RunnerFound(w)
    /\ AttemptFailed(w, "generic")

\* the handler panics (createPVC: resource.MustParse of a malformed
\* storageSize). Nothing between runner.Run and the goroutine's entry
\* function recovers, so the runtime ends the process and every goroutine
\* with it.
HandlerPanic(w) ==
    /\ pc[w] = "performTask"
    /\ RunnerFound(w)
    /\ pc' = [v \in Workers |-> "crashed"]
    /\ UNCHANGED <<claimed, idx, attempt, execErr, maxRetries, wsent, wcalls>>
    /\ UNCHANGED captainVars
    /\ UNCHANGED inputVars
    /\ UNCHANGED obsTask
    /\ UNCHANGED obsClaim

\* waitForNextAttempt returned true: attempt++ and operation() is called
\* again, whatever has happened to the context since the timer fired
WaitElapsed(w) ==
    /\ pc[w] = "timerFired"
    /\ attempt' = [attempt EXCEPT ![w] = @ + 1]
    /\ pc' = [pc EXCEPT ![w] = "performTask"]
    /\ wcalls' = [wcalls EXCEPT ![w] = Sat(@, CallCap(idx[w]))]
    /\ UNCHANGED <<claimed, idx, execErr, maxRetries, wsent>>
    /\ UNCHANGED captainVars
    /\ UNCHANGED inputVars
    /\ UNCHANGED obsTask
    /\ UNCHANGED obsClaim

\* waitForNextAttempt, case <-ctx.Done(): false, Execute returns ctx.Err()
WaitCancelled(w) ==
    /\ pc[w] = "waitForNextAttempt"
    /\ ctxCancelled
    /\ execErr' = [execErr EXCEPT ![w] = "cancelled"]
    /\ pc' = [pc EXCEPT ![w] = "executeErr"]
    /\ UNCHANGED <<claimed, idx, attempt, maxRetries, wsent, wcalls>>
    /\ UNCHANGED captainVars
    /\ UNCHANGED inputVars
    /\ UNCHANGED obsTask
    /\ UNCHANGED obsClaim

\* -------------------------------------------- performTaskWithRetries
\* apierrors.IsConflict(err) on the error Execute returned
IsConflict(e) == e = "conflict"

\* a refetch that pays no attention to the context
GetIgnoresContext == TRUE

\* getLatestVersionOfPod: clientset...Get(ctx, podName, ...) can return
\* the pod only while ctx is not done; a request made with a cancelled
\* context returns the context's error
GetMaySucceed == ~ctxCancelled

\* a write that replaces the map by one holding the new entry alone
WriteBackAlone(params, rv) == [k \in {"resourceVersion"} |-> rv]

\* task.Parameters[language.ResourceVersion] = updatedPod.ResourceVersion
WriteBack(params, rv) ==
    [k \in DOMAIN params \cup {"resourceVersion"} |->
        IF k = "resourceVersion" THEN rv ELSE params[k]]

\* what resolveConflict leaves alone outside the task
ConflictFrame ==
    /\ UNCHANGED <<taskFile, loaded, tasks, registered>>
    /\ UNCHANGED trackVars
    /\ UNCHANGED registryVars
    /\ UNCHANGED runVars
    /\ UNCHANGED workerVars
    /\ UNCHANGED captainVars
    /\ UNCHANGED obsTask
    /\ UNCHANGED obsClaim

\* resolveConflict: the podName parameter is missing or no string; or
\* getLatestVersionOfPod fails (always with a cancelled context); or the
\* pod's resourceVersion is written into the parameter map
resolveConflict ==
    /\ \/ /\ getParamAsString(parameters, "podName").err
          /\ resolveRet' = "paramErr"
          /\ UNCHANGED parameters
       \/ /\ ~getParamAsString(parameters, "podName").err
          /\ resolveRet' = "getErr"
          /\ UNCHANGED parameters
       \/ /\ ~getParamAsString(parameters, "podName").err
          /\ GetMaySucceed
          /\ \E rv \in ResourceVersions :
                parameters' = WriteBack(parameters, rv)
          /\ resolveRet' = "nil"
    /\ ConflictFrame

\* err != nil and IsConflict(err): handleConflictError -> resolveConflict
\* refetched the pod and wrote its resourceVersion into task.Parameters,
\* so performTaskWithRetries calls itself: a new RetryPolicy, Execute
\* from attempt 0 with lastErr nil, operation() at once
ConflictResolved(w) ==
    /\ pc[w] = "executeErr"
    /\ IsConflict(execErr[w])
    /\ GetMaySucceed
    /\ attempt' = [attempt EXCEPT ![w] = 0]
    /\ execErr' = [execErr EXCEPT ![w] = "nil"]
    /\ pc' = [pc EXCEPT ![w] = "performTask"]
    /\ wcalls' = [wcalls EXCEPT ![w] = Sat(@, CallCap(idx[w]))]
    /\ UNCHANGED <<claimed, idx, maxRetries, wsent>>
    /\ UNCHANGED captainVars
    /\ UNCHANGED inputVars
    /\ UNCHANGED obsTask
    /\ UNCHANGED obsClaim

\* ---------------------------------------- Run and its operations
\* what a step of a runner leaves alone
RunFrame ==
    /\ UNCHANGED <<taskFile, loaded, tasks, registered>>
    /\ UNCHANGED trackVars
    /\ UNCHANGED registryVars
    /\ UNCHANGED conflictVars
    /\ UNCHANGED workerVars
    /\ UNCHANGED captainVars
    /\ UNCHANGED obsTask
    /\ UNCHANGED obsClaim

\* what the Get and Update of one attempt can end with: nil or a
\* conflict from the Update while the context is not done, or another
\* error (always the outcome with a cancelled context)
ApiOutcomes ==
    IF GetMaySucceed THEN {"nil", "conflict", "generic"} ELSE {"generic"}

\* the error one attempt returns to the loop or to RetryOnConflict:
\* scaleDeploymentOnce formats the API error with %v into a new error,
\* which has the text only; updateDeploymentImageOnce and the function of
\* UpdateNetworkPolicy return the API error itself
OnceErr(e) ==
    IF runner = "scale" /\ e # "nil" THEN "text" ELSE e

\* retry.RetryOnConflict calls its function again after a conflict
\* while steps are left
BackoffRetries(e) ==
    runner \in {"image", "network"} /\ IsConflict(e) /\ backoffSteps > 1

\* the loop of ScaleDeployment / UpdateDeploymentImage: another attempt
\* while attempt < maxRetries, else the "failed after retries" message;
\* ScaleDeployment then returns lastScaleErr, UpdateDeploymentImage a
\* new error
LoopCheck ==
    /\ runPc = "loop"
    /\ runPc' = IF runAttempt < runMaxRetries THEN "once" ELSE "send"
    /\ backoffSteps' = IF runAttempt < runMaxRetries /\ runner = "image"
                       THEN RetrySteps ELSE backoffSteps
    /\ lastErr' = IF runAttempt >= runMaxRetries /\ runner = "image"
                  THEN "generic" ELSE lastErr
    /\ UNCHANGED <<runner, runMaxRetries, runAttempt, cause, resultsLen,
                   sent, runRet>>
    /\ RunFrame

\* where the operation goes after an attempt that returned e: to the
\* backoff of RetryOnConflict; to time.Sleep(retryDelay) when the loop
\* sees a conflict; UpdateNetworkPolicy's function, which reports every
\* outcome before it returns, and the loops on success or on another
\* error, to a send on the results channel
AfterOnce(e) ==
    IF runner = "network" THEN "send"
    ELSE IF BackoffRetries(e) THEN "backoff"
    ELSE IF IsConflict(e) THEN "sleep"
    ELSE "send"

\* one attempt: scaleDeploymentOnce, updateDeploymentImageOnce, or the
\* Get and Update of UpdateNetworkPolicy
Once(e) ==
    /\ runPc = "once"
    /\ e \in ApiOutcomes
    /\ cause' = e
    /\ lastErr' = OnceErr(e)
    /\ runPc' = AfterOnce(OnceErr(e))
    /\ backoffSteps' = IF AfterOnce(OnceErr(e)) = "backoff"
                       THEN backoffSteps - 1 ELSE backoffSteps
    /\ UNCHANGED <<runner, runMaxRetries, runAttempt, resultsLen, sent,
                   runRet>>
    /\ RunFrame

\* the sleep between two steps of RetryOnConflict is over
BackoffEnds ==
    /\ runPc = "backoff"
    /\ runPc' = "once"
    /\ UNCHANGED <<runner, runMaxRetries, runAttempt, backoffSteps, lastErr,
                   cause, resultsLen, sent, runRet>>
    /\ RunFrame

\* time.Sleep(retryDelay) returns: attempt++
SleepEnds ==
    /\ runPc = "sleep"
    /\ runAttempt' = runAttempt + 1
    /\ runPc' = "loop"
    /\ UNCHANGED <<runner, runMaxRetries, backoffSteps, lastErr, cause,
                   resultsLen, sent, runRet>>
    /\ RunFrame

\* results <- message, possible while the channel's buffer has room;
\* after it UpdateNetworkPolicy's function returns its error to
\* RetryOnConflict, the other operations return
Send ==
    /\ runPc = "send"
    /\ resultsLen < ResultsCap
    /\ resultsLen' = resultsLen + 1
    /\ sent' = sent + 1
    /\ runPc' = IF BackoffRetries(lastErr) THEN "backoff" ELSE "opReturned"
    /\ backoffSteps' = IF BackoffRetries(lastErr)
                       THEN backoffSteps - 1 ELSE backoffSteps
    /\ UNCHANGED <<runner, runMaxRetries, runAttempt, lastErr, cause, runRet>>
    /\ RunFrame

\* Run has the operation's error: not nil, it returns it (the deferred
\* close runs); nil, it goes into the range loop over results
OpReturned ==
    /\ runPc = "opReturned"
    /\ runPc' = IF lastErr = "nil" THEN "drain" ELSE "returned"
    /\ runRet' = IF lastErr = "nil" THEN runRet ELSE "err"
    /\ UNCHANGED <<runner, runMaxRetries, runAttempt, backoffSteps, lastErr,
                   cause, resultsLen, sent>>
    /\ RunFrame

\* for result := range results: a buffered message is received. The loop
\* ends when the channel is closed, and the only close is the deferred
\* one, which runs when Run returns.
DrainRecv ==
    /\ runPc = "drain"
    /\ resultsLen > 0
    /\ resultsLen' = resultsLen - 1
    /\ UNCHANGED <<runner, runPc, runMaxRetries, runAttempt, backoffSteps,
                   lastErr, cause, sent, runRet>>
    /\ RunFrame

\* how the processing of the worker's task ended
Outcome(w) ==
    CASE pc[w] \in {"sendOk1", "sendOk2"} -> "ok"
      [] pc[w] \in {"send1", "release2", "send2"} ->
            (IF execErr[w] = "cancelled" THEN "cancel" ELSE "error")
      [] OTHER -> "none"

\* err != nil and no conflict: handleGenericError logs and calls
\* waitForNextAttempt(ctx, retryDelay), where the worker stays until the
\* delay is over or the context is done
GenericError(w) ==
    /\ pc[w] = "executeErr"
    /\ ~IsConflict(execErr[w])
    /\ pc' = [pc EXCEPT ![w] = "handleGenericError"]
    /\ UNCHANGED <<claimed, idx, attempt, execErr, maxRetries, wsent, wcalls>>
    /\ UNCHANGED captainVars
    /\ UNCHANGED inputVars
    /\ UNCHANGED obsTask
    /\ UNCHANGED obsClaim

\* performTaskWithRetries gets to its call of handleFailedTask: the
\* error is a conflict that resolveConflict did not resolve, or the wait
\* of handleGenericError ends (by its timer or by the context, its result
\* is not used)
AtFailedTask(w) ==
    \/ pc[w] = "executeErr" /\ IsConflict(execErr[w])
    \/ pc[w] = "handleGenericError"

\* handleFailedTask, called by performTaskWithRetries: it first calls
\* taskStatus.Release and then sends err.Error()
ExecuteFailed(w) ==
    /\ AtFailedTask(w)
    /\ claimed' = Release(TaskOf(w))
    /\ pc' = [pc EXCEPT ![w] = "send1"]
    /\ attempt' = [attempt EXCEPT ![w] = 0]
    /\ wcalls' = [wcalls EXCEPT ![w] = 0]
    /\ finished' = IF execErr[w] = "cancelled"
                   THEN finished ELSE finished \cup {TaskOf(w)}
    /\ owner' = [owner EXCEPT ![TaskOf(w)] =
                     IF TaskOf(w) \in claimed' THEN @ ELSE 0]
    /\ UNCHANGED <<idx, execErr, maxRetries, wsent, emitted, succeeded>>
    /\ UNCHANGED captainVars
    /\ UNCHANGED inputVars

\* processTask got the error of performTaskWithRetries and calls
\* handleFailedTask itself: taskStatus.Release once more, then a send
FailedRelease2(w) ==
    /\ pc[w] = "release2"
    /\ claimed' = Release(TaskOf(w))
    /\ pc' = [pc EXCEPT ![w] = "send2"]
    /\ owner' = [owner EXCEPT ![TaskOf(w)] =
                     IF TaskOf(w) \in claimed' THEN @ ELSE 0]
    /\ UNCHANGED <<idx, attempt, execErr, maxRetries, wsent, wcalls, succeeded>>
    /\ UNCHANGED captainVars
    /\ UNCHANGED inputVars
    /\ UNCHANGED obsTask

\* ------------------------------------------------- results channel
\* the worker is blocked in a send on the unbuffered channel
Sending(w) == pc[w] \in {"send1", "send2", "sendOk1", "sendOk2"}

\* the string being sent: err.Error() of Execute's error, the "Failed to
\* complete task" error of performTaskWithRetries, or the success line
MsgKind(w) ==
    CASE pc[w] = "send1" -> (IF execErr[w] = "cancelled" THEN "cancel" ELSE "error")
      [] pc[w] = "send2" -> "error"
      [] OTHER -> "ok"

\* a worker that goes back to its loop after any send
LastSendAny(w) == Sending(w)

\* the send after which processTask returns to the loop of CrewWorker
LastSend(w) == pc[w] \in {"send2", "sendOk2"}

\* where the worker goes once its send has been received
AfterSend(w) ==
    CASE pc[w] = "send1" -> "release2"
      [] pc[w] = "sendOk1" -> "sendOk2"
      [] OTHER -> LoopPc(w)

\* the consumer receives the value worker w is sending; after its last
\* send the worker is back in the loop with its locals gone
Recv(w) ==
    /\ Sending(w)
    /\ closeCount = 0
    /\ emitted' = IF MsgKind(w) = "cancel" THEN emitted
                  ELSE emitted \cup {TaskOf(w)}
    /\ pc' = [pc EXCEPT ![w] = AfterSend(w)]
    /\ idx' = [idx EXCEPT ![w] = IF LastSend(w) THEN NextIdx(w) ELSE @]
    /\ wsent' = [wsent EXCEPT ![w] = IF LastSend(w) THEN 0 ELSE @ + 1]
    /\ execErr' = [execErr EXCEPT ![w] = IF LastSend(w) THEN "nil" ELSE @]
    /\ UNCHANGED <<claimed, attempt, wcalls, maxRetries, finished>>
    /\ UNCHANGED captainVars
    /\ UNCHANGED inputVars
    /\ UNCHANGED obsClaim

\* ------------------------------------------------ CaptainTellWorkers
\* a shutdown without the Once: every call runs the function
OnceMayRunUnguarded == TRUE

\* sync.Once.Do runs its function only if no call has run it and none is
\* running it (a concurrent caller blocks on the Once's mutex)
OnceMayRun == ~onceDone /\ onceRunning = 0

\* shutdown(), first call: once.Do enters the function and cancelFunc()
\* cancels shutdownCtx
ShutdownFirst ==
    /\ OnceMayRun
    /\ onceRunning' = onceRunning + 1
    /\ ctxCancelled' = TRUE
    /\ UNCHANGED <<onceDone, closers, closeCount, calledAgain>>
    /\ UNCHANGED workerVars
    /\ UNCHANGED inputVars
    /\ UNCHANGED obsTask
    /\ UNCHANGED obsClaim

\* the once body goes on: go func() { wg.Wait(); close(results) }(), and
\* Do marks the Once done
ShutdownSpawn ==
    /\ onceRunning > 0
    /\ onceRunning' = onceRunning - 1
    /\ onceDone' = TRUE
    /\ closers' = closers + 1
    /\ UNCHANGED <<ctxCancelled, closeCount, calledAgain>>
    /\ UNCHANGED workerVars
    /\ UNCHANGED inputVars
    /\ UNCHANGED obsTask
    /\ UNCHANGED obsClaim

\* shutdown() called when the Once is done: Do returns at once
ShutdownAgain ==
    /\ onceDone
    /\ calledAgain' = TRUE
    /\ UNCHANGED <<ctxCancelled, onceDone, onceRunning, closers, closeCount>>
    /\ UNCHANGED workerVars
    /\ UNCHANGED inputVars
    /\ UNCHANGED obsTask
    /\ UNCHANGED obsClaim

\* a closer that does not wait for the workers
WaitGroupNoWait == TRUE

\* wg.Wait() returns when every worker goroutine has run wg.Done()
WaitGroupZero == \A w \in Workers : pc[w] = "done"

\* a closer that runs without any call of shutdown
CloserWithoutShutdown == TRUE

\* the goroutine that closes the channel exists: the once body of
\* shutdown has started it
CloserStarted == closers > 0

\* the background goroutine: wg.Wait() returned, close(results)
CloseResults ==
    /\ CloserStarted
    /\ WaitGroupZero
    /\ closers' = closers - 1
    /\ closeCount' = closeCount + 1
    /\ UNCHANGED <<ctxCancelled, onceDone, onceRunning, calledAgain>>
    /\ UNCHANGED workerVars
    /\ UNCHANGED inputVars
    /\ UNCHANGED obsTask
    /\ UNCHANGED obsClaim

\* the parent context of shutdownCtx is cancelled by the caller
ParentCancel ==
    /\ ~ctxCancelled
    /\ ctxCancelled' = TRUE
    /\ UNCHANGED <<onceDone, onceRunning, closers, closeCount, calledAgain>>
    /\ UNCHANGED workerVars
    /\ UNCHANGED inputVars
    /\ UNCHANGED obsTask
    /\ UNCHANGED obsClaim

\* ------------------------------------------------------ specification
\* the kinds of error a handler returns: a conflict of the cluster API
\* (apierrors.IsConflict) or any other error
ErrKinds == {"generic", "conflict"}

\* the steps of a worker that do not depend on a cancelled context
QuietStep(w) ==
    \/ ClaimSkip(w)
    \/ ClaimRun(w)
    \/ HandlerOk(w)
    \/ \E e \in ErrKinds : HandlerErr(w, e)
    \/ LookupFailed(w)
    \/ TimerFires(w)
    \/ WaitElapsed(w)
    \/ ConflictResolved(w)
    \/ GenericError(w)
    \/ ExecuteFailed(w)
    \/ FailedRelease2(w)

WorkerStep(w) ==
    \/ QuietStep(w)
    \/ WaitCancelled(w)

Next ==
    \/ \E w \in Workers : WorkerStep(w)
    \/ \E w \in Workers : Recv(w)
    \/ ShutdownFirst
    \/ ShutdownSpawn
    \/ ShutdownAgain
    \/ CloseResults
    \/ ParentCancel

Spec == Init /\ [][Next]_vars

\* the runs on a batch whose entries share one name in which shutdown
\* is not called and the parent context is not cancelled
DupNext ==
    \/ \E w \in Workers : QuietStep(w)
    \/ \E w \in Workers : Recv(w)

DupSpec == DupInit /\ [][DupNext]_vars

\* a TaskStatusMap under any sequence of calls of its methods
TrackNext ==
    \E name \in StatusNames :
        \/ AddTask(name)
        \/ DeleteTask(name)
        \/ Claim(name)
        \/ ReleaseCall(name)
        \/ IsClaimed(name)

TrackSpec == Init /\ [][TrackNext]_vars

\* the registry under any sequence of registrations and lookups
RegistryNext ==
    \E kind \in Kinds :
        \/ \E c \in Constructors : RegisterTaskRunner(kind, c)
        \/ GetTaskRunner(kind)

RegistrySpec == Init /\ [][RegistryNext]_vars

\* the conflict resolution of one task, called any number of times,
\* and the cancellation of its context
ConflictNext ==
    \/ resolveConflict
    \/ ParentCancel

ConflictSpec == ConflictInit /\ [][ConflictNext]_vars

\* the steps of Run and of the operation it calls
RunStep ==
    \/ LoopCheck
    \/ \E e \in {"nil", "conflict", "generic"} : Once(e)
    \/ BackoffEnds
    \/ SleepEnds
    \/ Send
    \/ OpReturned
    \/ DrainRecv

\* one call of Run, and the cancellation of its context
RunNext ==
    \/ RunStep
    \/ ParentCancel

RunSpec == RunInit /\ [][RunNext]_vars

\* the goroutine that executes Run is scheduled
FairRunSpec == RunSpec /\ WF_vars(RunStep)

\* the loader alone
LoaderNext == LoadTasks

LoaderSpec == LoaderInit /\ [][LoaderNext]_vars

\* the process is running
Alive == \A w \in Workers : pc[w] # "crashed"

\* the program with handlers that may also panic
NextPanic ==
    \/ Alive /\ Next
    \/ \E w \in Workers : HandlerPanic(w)

SpecPanic == Init /\ [][NextPanic]_vars

\* the Go scheduler runs every runnable goroutine; the consumer keeps
\* receiving, and a blocked sender is served in its turn
FairSpec ==
    /\ Spec
    /\ \A w \in Workers : WF_vars(WorkerStep(w))
    /\ \A w \in Workers : WF_vars(Recv(w))
    /\ WF_vars(ShutdownSpawn)
    /\ WF_vars(CloseResults)

\* the worker pool on tasks that may have no attempt
NoBudgetSpec == NoBudgetInit /\ [][Next]_vars

\* the same under a fair scheduler and a receiving consumer
FairNoBudgetSpec ==
    /\ NoBudgetSpec
    /\ \A w \in Workers : WF_vars(WorkerStep(w))
    /\ \A w \in Workers : WF_vars(Recv(w))
    /\ WF_vars(ShutdownSpawn)
    /\ WF_vars(CloseResults)

\* the scheduler is fair to the goroutines of the package, but the
\* consumer, which is the caller's code, may stop receiving
FairSpecIdleConsumer ==
    /\ Spec
    /\ \A w \in Workers : WF_vars(WorkerStep(w))
    /\ WF_vars(ShutdownSpawn)
    /\ WF_vars(CloseResults)

\* ------------------------------------------------------------ claims
\* a worker is inside the retry loop of performTaskWithRetries
InRetryLoop(w) ==
    pc[w] \in {"performTask", "waitForNextAttempt", "timerFired", "executeErr"}

\* the step in which worker w reaches a terminal outcome for its task
ReachesTerminal(w) ==
    \/ HandlerOk(w)
    \/ ExecuteFailed(w) /\ execErr[w] # "cancelled"

\* results the worker has sent, or is sending, for the task it processed
ResultsOut(w) == wsent[w] + (IF Sending(w) THEN 1 ELSE 0)

\* C1: at-most-once per run. No worker claims and runs a task that a
\* worker has already driven to a terminal outcome, and no task reaches a
\* terminal outcome a second time.
C1_AtMostOnce ==
    [][\A w \in Workers :
          (ClaimRun(w) \/ ReachesTerminal(w)) => TaskOf(w) \notin finished]_vars

\* C2: no two workers are inside performTask for the same task name at
\* the same time.
C2_OneWorkerAtATime ==
    \A w1, w2 \in Workers :
        (w1 # w2 /\ pc[w1] = "performTask" /\ pc[w2] = "performTask")
            => TaskOf(w1) # TaskOf(w2)

\* C3: for a task whose handler returned nil, the worker that ran it puts
\* exactly one success result on the results channel.
C3_OneSuccessResult ==
    \A w \in Workers : Outcome(w) = "ok" => ResultsOut(w) = 1

\* C4: for a task that ended in a terminal error, the worker that
\* processed it puts exactly one result string on the results channel.
C4_OneErrorResult ==
    \A w \in Workers : Outcome(w) = "error" => ResultsOut(w) = 1

\* C5: completeness. Under fair scheduling with a receiving consumer, a
\* task claimed while the context is not cancelled eventually has a
\* success or terminal-error result emitted.
C5_Completeness ==
    \A t \in TaskNames : (t \in claimed /\ ~ctxCancelled) ~> (t \in emitted)

\* C6: retry bound. While one worker processes a task, the handler is
\* invoked at most maxRetries * (1 + maxRetries) times, the restarts after
\* conflicts included.
C6_RetryBound ==
    \A w \in Workers : InRetryLoop(w) => wcalls[w] <= RetryBound(idx[w])

\* C7: shutdown idempotence. However often shutdown is called, the once
\* body runs at most once, so at most one closer goroutine exists and the
\* results channel is closed at most once; a later call adds nothing.
C7_ShutdownOnce ==
    /\ closeCount <= 1
    /\ onceRunning + closers + closeCount <= 1
    /\ calledAgain => (closers + closeCount = 1 /\ ctxCancelled)

C7_Witness == calledAgain /\ closeCount = 1

\* C8: channel closure discipline. The results channel is closed only
\* when every worker goroutine has returned; no worker is in, or gets to,
\* a send on the closed channel.
C8_CloseAfterWorkers ==
    closeCount > 0 => \A w \in Workers : pc[w] = "done" /\ ~Sending(w)

C8_Witness == closeCount = 1 /\ emitted # {} /\ finished # {}

\* C9: cancellation promptness. Once the context is cancelled no worker
\* starts a handler invocation.
C9_NoStartAfterCancel ==
    [][ctxCancelled =>
          \A w \in Workers : ~(pc[w] # "performTask" /\ pc'[w] = "performTask")]_vars

\* C10: a worker whose processing of a task ended by cancellation keeps
\* the claim on the task while it emits the cancellation result and after.
C10_CancelKeepsClaim ==
    \A w \in Workers : Outcome(w) = "cancel" => TaskOf(w) \in claimed

\* shutdown has been called: the once body is running or has run
ShutdownCalled == onceRunning > 0 \/ onceDone

C12_NoDeadlockBlockedSend ==
    \A w \in Workers :
        (ShutdownCalled /\ Sending(w)) ~> (pc[w] = "done" /\ closeCount > 0)

\* C13: claim retention on success. Once the handler of a task has
\* returned nil, the task name stays in the claim set for the rest of the
\* run, so no other worker claims and runs the task.
C13_ClaimRetained == \A t \in succeeded : t \in claimed

\* C14: a claim is removed only by the worker that owns it: no Release
\* removes a claim that a different worker holds.
C14_ReleaseByOwner ==
    [][\A w \in Workers :
          (ExecuteFailed(w) \/ FailedRelease2(w))
              => owner[TaskOf(w)] \in {0, w}]_vars

\* worker w is reading or writing the parameter map of its task: inside
\* the handler, or inside resolveConflict
TouchesParameters(w) ==
    \/ pc[w] = "performTask"
    \/ pc[w] = "executeErr" /\ IsConflict(execErr[w])

\* C15: single writer. The worker that writes the resourceVersion into a
\* task's parameter map holds the claim on the task, and no other worker
\* reads or writes that map at the same time.
C15_SingleWriter ==
    [][\A w \in Workers :
          ConflictResolved(w) =>
              /\ owner[TaskOf(w)] = w
              /\ \A w2 \in Workers \ {w} :
                    TouchesParameters(w2) => TaskOf(w2) # TaskOf(w)]_vars

\* C16: conflict refresh. The handler is never invoked again for a task
\* while the error of its previous invocation is a conflict that no
\* refresh of the resourceVersion has followed.
C16_RefreshBeforeRetry ==
    \A w \in Workers : pc[w] = "performTask" => ~IsConflict(execErr[w])

\* C17: release on terminal failure. While a worker emits the terminal
\* error result of a task, and after, its claim on the task is gone; if
\* no other worker has claimed the name since, a Claim of it succeeds.
C17_ReleasedAtErrorResult ==
    \A w \in Workers :
        Outcome(w) = "error" =>
            /\ owner[TaskOf(w)] # w
            /\ owner[TaskOf(w)] = 0 => ClaimOk(TaskOf(w))

C17_Witness ==
    \E w \in Workers :
        pc[w] = "send1" /\ execErr[w] = "generic" /\ ClaimOk(TaskOf(w))

\* C18: a conflict whose refresh failed is terminal: the worker is out
\* of the retry loop and does not get back into it, its claim is released
\* and a terminal error result is sent.
C18_RefreshFailedTerminal ==
    [][\A w \in Workers :
          (Outcome(w) = "error" /\ IsConflict(execErr[w])) =>
              /\ owner[TaskOf(w)] # w
              /\ ResultsOut(w) >= 1
              /\ ~InRetryLoop(w)'
              /\ wcalls'[w] = 0]_vars

C18_Witness ==
    \E w \in Workers :
        pc[w] = "send2" /\ IsConflict(execErr[w]) /\ ctxCancelled

\* C19: Execute with MaxRetries = n >= 1 makes its attempts one after the
\* other, never more than n; it returns nil at the first success, and when
\* it returns for exhaustion it has made exactly n attempts and its error
\* carries the error of the last one.
C19_ExecuteAttempts ==
    \A w \in Workers :
        /\ pc[w] \in {"performTask", "waitForNextAttempt", "timerFired"}
              => attempt[w] < maxRetries[idx[w]]
        /\ (pc[w] = "executeErr" /\ execErr[w] # "cancelled")
              => (attempt[w] + 1 = maxRetries[idx[w]]
                  /\ execErr[w] \in ErrKinds)
        /\ Outcome(w) = "ok" => execErr[w] = "nil"

C19_Witness ==
    \E w \in Workers :
        /\ pc[w] = "executeErr" /\ execErr[w] = "generic"
        /\ attempt[w] = 1 /\ maxRetries[idx[w]] = 2

\* C20: Execute makes no attempt, the first included, when the context
\* is already cancelled.
C20_NoAttemptWhenCancelled ==
    [][\A w \in Workers :
          (ClaimRun(w) \/ WaitElapsed(w) \/ ConflictResolved(w))
              => ~ctxCancelled]_vars

\* C21: a context cancelled while Execute waits between two attempts
\* ends the wait: the worker's next step out of the wait is Execute's
\* return of the cancellation error, not another attempt.
C21_CancelEndsWait ==
    [][\A w \in Workers :
          (pc[w] = "waitForNextAttempt" /\ ctxCancelled) =>
              \/ pc'[w] = "waitForNextAttempt"
              \/ pc'[w] = "executeErr" /\ execErr'[w] = "cancelled"]_vars

C21_Witness ==
    \E w \in Workers : pc[w] = "executeErr" /\ execErr[w] = "cancelled"

C23_ClaimLinearizable ==
    [][\A w \in Workers :
          /\ ClaimRun(w) =>
                /\ TaskOf(w) \notin claimed /\ owner[TaskOf(w)] = 0
                /\ TaskOf(w) \in claimed'
          /\ ClaimSkip(w) =>
                /\ TaskOf(w) \in claimed /\ owner[TaskOf(w)] # 0
                /\ claimed' = claimed]_vars

C23_Witness ==
    \E w1, w2 \in Workers :
        /\ pc[w1] = "performTask" /\ pc[w2] = "done"
        /\ finished = {} /\ ~ctxCancelled

\* C24: Release(name) leaves the claim set without the name and
\* otherwise as it was, also when the name was not in the set; the name
\* is then claimable.
C24_ReleaseIdempotent ==
    [][\A w \in Workers :
          (ExecuteFailed(w) \/ FailedRelease2(w)) =>
              /\ claimed' = claimed \ {TaskOf(w)}
              /\ TaskOf(w) \notin claimed']_vars

C24_Witness ==
    \E w \in Workers : pc[w] = "send2" /\ TaskOf(w) \notin claimed

C29_CloseOnlyByShutdown == closeCount > 0 => onceDone

C29_Witness ==
    /\ ~ShutdownCalled /\ ctxCancelled /\ closeCount = 0
    /\ \A w \in Workers : pc[w] = "done"

\* C30: no worker waits retryDelay after the last failed attempt of a
\* task whose attempts failed with a non-conflict error.
C30_NoWaitAfterLastAttempt ==
    \A w \in Workers : pc[w] = "handleGenericError" => execErr[w] # "generic"

\* C25: the executor never panics: no handler failure ends the process;
\* the worker turns it into a result and goes on with its tasks.
C25_NeverPanics == \A w \in Workers : pc[w] # "crashed"

\* worker w has claimed its entry and has not released it
Holding(w) ==
    \/ InRetryLoop(w)
    \/ pc[w] \in {"handleGenericError", "sendOk1", "sendOk2"}

\* C26: entries of the batch that share a name share one claim: while a
\* worker holds the claim for one of them, no worker executes another
\* entry of that name.
C26_SharedClaimIdentity ==
    \A w1, w2 \in Workers :
        (Holding(w1) /\ pc[w2] = "performTask" /\ idx[w1] # idx[w2])
            => TaskOf(w1) # TaskOf(w2)

\* C28: every task the loader returns has maxRetries >= 1 and
\* retryDelay >= 0.
C28_LoadedTasksValid ==
    loaded.state = "tasks" =>
        (loaded.MaxRetries >= 1 /\ loaded.RetryDelayDuration >= 0)

\* C37: a call of Claim, Release (or DeleteTask) on one name leaves the
\* claim status of every other name as it was, and IsClaimed(name)
\* returns true exactly when a Claim of name has succeeded and no call
\* has unclaimed the name since.
C37_ClaimFrame ==
    [][/\ \A n \in StatusNames :
            n # lastCall'.name => ((n \in claimed') <=> (n \in claimed))
       /\ lastCall'.op = "IsClaimed" =>
            (lastCall'.ret <=> (lastCall'.name \in held'))]_vars

\* IsClaimed has returned true for a name while another name is claimed
\* too
C37_Witness ==
    /\ lastCall.op = "IsClaimed"
    /\ lastCall.ret
    /\ claimed # {lastCall.name}

\* C38: GetTaskRunner(kind) returns a runner built by the constructor of
\* the latest RegisterTaskRunner call for kind and calls no other
\* constructor; for a kind never registered it returns an error and
\* calls no constructor.
C38_GetTaskRunner ==
    [][\A kind \in Kinds :
          GetTaskRunner(kind) =>
              IF lastRegistered[kind] = 0
              THEN lastRunner'.err /\ lastRunner'.called = {}
              ELSE /\ ~lastRunner'.err
                   /\ lastRunner'.runner = lastRegistered[kind]
                   /\ lastRunner'.called = {lastRegistered[kind]}]_vars

\* a lookup of a type registered twice has returned a runner, while the
\* other type has no entry
C38_Witness ==
    /\ lastRunner.kind \in overwritten
    /\ ~lastRunner.err
    /\ \E kind \in Kinds : lastRegistered[kind] = 0

\* C36: resolveConflict leaves every entry of the parameter map other
\* than resourceVersion as it was, present or absent, and a call that
\* returns an error leaves the whole map as it was.
C36_ResolveConflictFrame ==
    [][resolveConflict =>
          /\ \A k \in ParamKeys \ {"resourceVersion"} :
                /\ (k \in DOMAIN parameters') <=> (k \in DOMAIN parameters)
                /\ k \in DOMAIN parameters => parameters'[k] = parameters[k]
          /\ resolveRet' # "nil" => parameters' = parameters]_vars

\* a call has returned nil on a map with other entries and written a
\* resourceVersion different from podName's value
C36_Witness ==
    /\ resolveRet = "nil"
    /\ "replicas" \in DOMAIN parameters
    /\ parameters["resourceVersion"] # parameters["podName"]

\* the worker processes a task that has no attempt
NoBudget(w) == pc[w] \notin {"loop", "done"} /\ maxRetries[idx[w]] <= 0

\* C33: for a task with maxRetries <= 0 the handler is never invoked and
\* no success is reported, and once the task is claimed its error result
\* is eventually received with the claim released.
C33_NoBudgetIsError ==
    /\ [](\A w \in Workers :
             NoBudget(w) =>
                 /\ pc[w] \in {"executeErr", "handleGenericError", "send1",
                               "release2", "send2"}
                 /\ execErr[w] = "generic"
                 /\ wcalls[w] = 0)
    /\ \A i \in 1..NumTasks :
          (tasks[i] \in claimed /\ maxRetries[i] <= 0) ~>
              (tasks[i] \in emitted /\ tasks[i] \notin claimed)

\* the error result of a task with no attempt has been received and the
\* task's claim is released
C33_Witness ==
    \E w \in Workers :
        /\ NoBudget(w)
        /\ pc[w] = "release2"
        /\ TaskOf(w) \notin claimed
        /\ TaskOf(w) \in emitted

\* C31: once the operation called by Run has returned nil, Run
\* eventually returns nil.
C31_RunReturns ==
    (runPc = "opReturned" /\ lastErr = "nil") ~> (runRet = "nil")

\* C32: one call of UpdateNetworkPolicy makes at most one send on its
\* results channel, so it is never at a send with the buffer full.
C32_OneMessage ==
    runner = "network" =>
        sent + (IF runPc = "send" THEN 1 ELSE 0) <= 1

\* C34: ScaleDeployment does not report and return after an attempt whose
\* Update hit a conflict while attempts remain, and it makes no further
\* attempt after one that failed otherwise.
C34_ScaleRetriesOnConflict ==
    runner = "scale" =>
        /\ (cause = "conflict" /\ runAttempt + 1 < runMaxRetries)
              => runPc \in {"sleep", "loop", "once"}
        /\ cause = "generic" => runPc \in {"send", "opReturned", "returned"}

\* C35: with the context already cancelled the loop of ScaleDeployment
\* and of UpdateDeploymentImage does not go into an attempt, and a wait
\* between conflict retries does not run to its end and on to another
\* round of the loop.
C35_HandlersRespectCancel ==
    [][(runner \in {"scale", "image"} /\ ctxCancelled) =>
          /\ ~(LoopCheck /\ runPc' = "once")
          /\ ~SleepEnds]_vars

====
